---- MODULE Spec2Model ----
(***************************************************************************)
(* Grocery Aisle Product Finder: the classifier's label mapping, the       *)
(* SQLite-backed product table and the prediction endpoints.               *)
(*                                                                         *)
(* Text is a sequence of one-character strings, so that strip(), lower(),  *)
(* substring tests and SQLite's BINARY text comparison are computed        *)
(* character by character.                                                 *)
(***************************************************************************)
EXTENDS Integers, Sequences, FiniteSets, TLC

VARIABLES
    mapInput,      \* list of fine-grained labels handed to _map_label
    mapOutput,     \* what _map_label returned for it (None before the call)
    csv,           \* data/products.csv: Missing, or its rows
    table,         \* the rows of the products table in data/products.db
    seedCsv,       \* history: the CSV rows the table was seeded from
    up,            \* the server process is running (routes.py imported)
    _db_instance,  \* database.py module global
    db,            \* routes.py module global
    constructed,   \* ProductDatabase objects constructed by this process
    returned,      \* instances get_db has returned in this process
    calls,         \* get_db calls made by this process
    constructions, \* ProductDatabase constructions over the same db file
    staleStart,    \* history: the last construction found rows and a changed CSV
    tableAtStart,  \* history: the table as this process's construction left it
    lastLookup,    \* the last ProductDatabase.lookup call and its result
    lastList,      \* the last ProductDatabase.all_products result
    prevList,      \* the all_products result before that
    log,           \* the lines of data/requests.log
    clock,         \* wall clock, advanced by every prediction
    completed,     \* history: clock readings of the predictions completed with a writable log
    lastHtml,      \* the last POST /predict exchange
    lastApi,       \* the last POST /api/predict exchange
    lastOther      \* the last exchange of any other endpoint than these and /products

mapVars == <<mapInput, mapOutput>>
dbRest == <<csv, seedCsv, up, _db_instance, db, constructed, returned,
            calls, constructions, staleStart, tableAtStart>>
dbVars == <<table, dbRest>>
queryVars == <<lastLookup, lastList, prevList>>
reqVars == <<log, clock, completed, lastHtml, lastApi>>
otherVars == <<lastOther>>
vars == <<mapVars, dbVars, queryVars, reqVars, otherVars>>

\* Python's None: the empty tuple, which equals no record and no non-empty
\* text (a label, a content type and a seeding CSV are never empty)
None == <<>>

---------------------------------------------------------------------------
(* Bounds *)
MaxTopK == 3
MaxRows == 2
MaxCalls == 3
MaxConstructions == 3
MaxRequests == 2

---------------------------------------------------------------------------
(* Text *)

\* the characters in code point order (relative order is all that is used)
Ascii == <<" ", "/", "0", "1", "2", "3", "4", "5", "6", "7", "8", "9",
           "A", "B", "C", "D", "E", "F", "G", "H", "I", "J", "K", "L", "M",
           "N", "O", "P", "Q", "R", "S", "T", "U", "V", "W", "X", "Y", "Z",
           "a", "b", "c", "d", "e", "f", "g", "h", "i", "j", "k", "l", "m",
           "n", "o", "p", "q", "r", "s", "t", "u", "v", "w", "x", "y", "z">>

CodePoints == [c \in { Ascii[i] : i \in 1..Len(Ascii) } |->
                  CHOOSE i \in 1..Len(Ascii) : Ascii[i] = c]

Code(c) == CodePoints[c]

IsUpper(c) == Code(c) >= Code("A") /\ Code(c) <= Code("Z")

LowerChar(c) == IF IsUpper(c) THEN Ascii[Code(c) + (Code("a") - Code("A"))] ELSE c

\* str.lower()
Lower(s) == [i \in 1..Len(s) |-> LowerChar(s[i])]

RECURSIVE LStrip(_)
LStrip(s) == IF s # <<>> /\ Head(s) = " " THEN LStrip(Tail(s)) ELSE s

RECURSIVE RStrip(_)
RStrip(s) ==
    IF s # <<>> /\ s[Len(s)] = " " THEN RStrip(SubSeq(s, 1, Len(s) - 1)) ELSE s

\* str.strip()
Strip(s) == RStrip(LStrip(s))

\* k in s, for strings
Contains(s, k) ==
    \E i \in 1..(Len(s) - Len(k) + 1) : SubSeq(s, i, i + Len(k) - 1) = k

\* a < b in SQLite's BINARY collation (and Python's str order)
TextLess(a, b) ==
    \/ \E i \in 1..Len(a) :
          /\ i <= Len(b)
          /\ SubSeq(a, 1, i - 1) = SubSeq(b, 1, i - 1)
          /\ Code(a[i]) < Code(b[i])
    \/ Len(a) < Len(b) /\ SubSeq(b, 1, Len(a)) = a

IsDigit(c) == Code(c) >= Code("0") /\ Code(c) <= Code("9")

IsNumber(s) == s # <<>> /\ \A i \in 1..Len(s) : IsDigit(s[i])

RECURSIVE ToNumber(_)
ToNumber(s) ==
    IF s = <<>> THEN 0
    ELSE 10 * ToNumber(SubSeq(s, 1, Len(s) - 1)) + (Code(s[Len(s)]) - Code("0"))

---------------------------------------------------------------------------
(* schemas.ProductClassifier *)

sBanana == <<"b", "a", "n", "a", "n", "a">>
sApple == <<"a", "p", "p", "l", "e">>
sNeither == <<"n", "e", "i", "t", "h", "e", "r">>

_banana_keywords == { sBanana, <<"p", "l", "a", "n", "t", "a", "i", "n">> }

_apple_keywords ==
    { <<"g", "r", "a", "n", "n", "y", " ", "s", "m", "i", "t", "h">>,
      <<"r", "e", "d", " ", "d", "e", "l", "i", "c", "i", "o", "u", "s">>,
      <<"g", "o", "l", "d", "e", "n", " ", "d", "e", "l", "i", "c", "i", "o", "u", "s">>,
      sApple }

ProductLabel == { sBanana, sApple, sNeither }

\* a first loop that stops at the first label: only the top label is tested
_map_label_top1(imagenet_labels) ==
    LET low == [i \in 1..Len(imagenet_labels) |-> Lower(imagenet_labels[i])]
    IN  IF low # <<>> /\ \E k \in _banana_keywords : Contains(low[1], k)
        THEN sBanana
        ELSE IF \E i \in 1..Len(low) : \E k \in _apple_keywords : Contains(low[i], k)
        THEN sApple
        ELSE sNeither

_map_label(imagenet_labels) ==
    LET low == [i \in 1..Len(imagenet_labels) |-> Lower(imagenet_labels[i])]
    IN  IF \E i \in 1..Len(low) : \E k \in _banana_keywords : Contains(low[i], k)
        THEN sBanana
        ELSE IF \E i \in 1..Len(low) : \E k \in _apple_keywords : Contains(low[i], k)
        THEN sApple
        ELSE sNeither

\* fine-grained class names a top-k list is drawn from
LabelPool ==
    { sBanana,
      <<"G", "r", "a", "n", "n", "y", " ", "S", "m", "i", "t", "h">>,
      <<"p", "i", "n", "e", "a", "p", "p", "l", "e">>,
      <<"P", "L", "A", "N", "T", "A", "I", "N">>,
      <<"l", "e", "m", "o", "n">> }

LabelLists == UNION { [1..n -> LabelPool] : n \in 0..MaxTopK }

---------------------------------------------------------------------------
(* data/products.csv *)

tFruit == <<"f", "r", "u", "i", "t">>
tDairy == <<"d", "a", "i", "r", "y">>

CsvRow(n, c, a, s, p, k) ==
    [product_name |-> n, category |-> c, aisle |-> a, section |-> s,
     price |-> p, stock |-> k]

\* rows a CSV file is made of; the last one has a price float() rejects
RowPool ==
    { CsvRow(<<" ", "B", "a", "n", "a", "n", "a">>, tFruit, <<"2">>, <<"A">>,
             <<"1">>, <<" ", "Y", "E", "S">>),
      CsvRow(<<"b", "a", "n", "a", "n", "a", " ">>, tFruit, <<"1", "0">>, <<"B">>,
             <<"2">>, <<"n", "o">>),
      CsvRow(<<"A", "p", "p", "l", "e">>, tFruit, <<"2">>, <<"A">>,
             <<"3">>, <<"1">>),
      CsvRow(<<"m", "i", "l", "k">>, tDairy, <<"7">>, <<"C">>,
             <<"x">>, <<"t", "r", "u", "e">>) }

\* the file when it does not exist, and when it holds the given rows
Missing == [exists |-> FALSE, rows |-> <<>>]

File(rows) == [exists |-> TRUE, rows |-> rows]

CsvFiles ==
    { Missing } \cup { File(rows) : rows \in UNION { [1..n -> RowPool] : n \in 0..MaxRows } }

---------------------------------------------------------------------------
(* services/database.py *)

TrueWords == { <<"t", "r", "u", "e">>, <<"1">>, <<"y", "e", "s">> }

\* the tuple built from one csv.DictReader row; float() raises on a bad price
ParseRow(row) ==
    [raised |-> ~IsNumber(row.price),
     row |-> [product_name |-> Lower(Strip(row.product_name)),
              category |-> row.category,
              aisle |-> row.aisle,
              section |-> row.section,
              price |-> IF IsNumber(row.price) THEN ToNumber(row.price) ELSE 0,
              in_stock |-> IF Lower(Strip(row.stock)) \in TrueWords THEN 1 ELSE 0]]

\* INSERT OR REPLACE of one row: product_name is the primary key
InsertOrReplace(tbl, row) ==
    { r \in tbl : r.product_name # row.product_name } \cup { row }

RECURSIVE ExecuteMany(_, _)
ExecuteMany(tbl, rows) ==
    IF rows = <<>> THEN tbl
    ELSE ExecuteMany(InsertOrReplace(tbl, ParseRow(Head(rows)).row), Tail(rows))

\* the seed without the count == 0 test: every construction writes the CSV
_ensure_schema_and_seed_always(tbl, file) ==
    IF file.exists
    THEN IF \E i \in 1..Len(file.rows) : ParseRow(file.rows[i]).raised
         THEN [raised |-> TRUE, table |-> tbl, seeded |-> FALSE]
         ELSE [raised |-> FALSE, table |-> ExecuteMany(tbl, file.rows),
               seeded |-> file.rows # <<>>]
    ELSE [raised |-> FALSE, table |-> tbl, seeded |-> FALSE]

\* ProductDatabase.__init__: the table after it, and whether it raised
_ensure_schema_and_seed(tbl, file) ==
    IF Cardinality(tbl) = 0 /\ file.exists
    THEN IF \E i \in 1..Len(file.rows) : ParseRow(file.rows[i]).raised
         THEN [raised |-> TRUE, table |-> tbl, seeded |-> FALSE]
         ELSE [raised |-> FALSE, table |-> ExecuteMany(tbl, file.rows),
               seeded |-> file.rows # <<>>]
    ELSE [raised |-> FALSE, table |-> tbl, seeded |-> FALSE]

ProductLocation(row) ==
    [product_name |-> row.product_name, category |-> row.category,
     aisle |-> row.aisle, section |-> row.section, price |-> row.price,
     in_stock |-> (row.in_stock # 0)]

\* a SELECT that empties the table it reads
AfterSelectDeleting(tbl) == {}

\* the table after cur.execute("SELECT ..."): a query writes nothing
AfterSelect(tbl) == tbl

\* a lookup that compares the query as given
lookup_raw(tbl, product_name) ==
    IF \E r \in tbl : r.product_name = product_name
    THEN ProductLocation(CHOOSE r \in tbl : r.product_name = product_name)
    ELSE None

\* ProductDatabase.lookup
lookup(tbl, product_name) ==
    LET name == Lower(Strip(product_name))
    IN  IF \E r \in tbl : r.product_name = name
        THEN ProductLocation(CHOOSE r \in tbl : r.product_name = name)
        ELSE None

\* ORDER BY aisle, product_name
RowBefore(a, b) ==
    \/ TextLess(a.aisle, b.aisle)
    \/ a.aisle = b.aisle /\ TextLess(a.product_name, b.product_name)

\* ORDER BY aisle alone
OrderedByAisle(rows) ==
    \A i, j \in 1..Len(rows) : i < j => ~TextLess(rows[j].aisle, rows[i].aisle)

\* the row sequences SQLite may answer the ORDER BY with
Ordered(rows) ==
    \A i, j \in 1..Len(rows) : i < j => ~RowBefore(rows[j], rows[i])

\* every sequence that holds each row of the table exactly once
Listings(tbl) ==
    { s \in [1..Cardinality(tbl) -> tbl] : \A r \in tbl : \E i \in DOMAIN s : s[i] = r }

\* ProductDatabase.all_products: the results the query can give
all_products(tbl) ==
    { [i \in DOMAIN s |-> ProductLocation(s[i])] : s \in { t \in Listings(tbl) : Ordered(t) } }

\* get_db without the None test
get_db_fresh(inst, tbl, file, n) ==
    LET c == _ensure_schema_and_seed(tbl, file)
    IN  IF c.raised
        THEN [raised |-> TRUE, instance |-> inst, table |-> tbl,
              constructed |-> n, seeded |-> FALSE, built |-> TRUE]
        ELSE [raised |-> FALSE, instance |-> [id |-> n + 1], table |-> c.table,
              constructed |-> n + 1, seeded |-> c.seeded, built |-> TRUE]

\* get_db: inst is _db_instance, n the instances constructed so far
get_db(inst, tbl, file, n) ==
    IF inst = None
    THEN LET c == _ensure_schema_and_seed(tbl, file)
         IN  IF c.raised
             THEN [raised |-> TRUE, instance |-> inst, table |-> tbl,
                   constructed |-> n, seeded |-> FALSE, built |-> TRUE]
             ELSE [raised |-> FALSE, instance |-> [id |-> n + 1], table |-> c.table,
                   constructed |-> n + 1, seeded |-> c.seeded, built |-> TRUE]
    ELSE [raised |-> FALSE, instance |-> inst, table |-> tbl,
          constructed |-> n, seeded |-> FALSE, built |-> FALSE]

---------------------------------------------------------------------------
(* app/model.py and services/vision.py *)

\* 0.95, in thousandths
StubConfidence == 950

\* model.ProductClassifier.predict: the placeholder classifier
StubPredict(image) == [label |-> sBanana, confidence |-> StubConfidence]

\* an upload's bytes: whether Image.open accepts them, whether the pixels
\* then load (convert, resize), the top-k class names the pretrained network
\* gives the picture with the probability of the first (in thousandths), and
\* the picture's size
Bytes(o, d, l, p, w, h) ==
    [opens |-> o, decodes |-> d, labels |-> l, prob |-> p, width |-> w, height |-> h]

tLemon == <<"l", "e", "m", "o", "n">>

BytesPool ==
    { Bytes(FALSE, FALSE, <<>>, 0, 0, 0),
      Bytes(TRUE, FALSE, <<>>, 0, 40, 30),
      Bytes(TRUE, TRUE, <<sBanana, tLemon>>, 910, 40, 30),
      Bytes(TRUE, TRUE,
            <<tLemon, <<"G", "r", "a", "n", "n", "y", " ", "S", "m", "i", "t", "h">> >>,
            640, 12, 12),
      Bytes(TRUE, TRUE, <<tLemon>>, 480, 40, 30) }

tImagePrefix == <<"i", "m", "a", "g", "e", "/">>

ContentTypes ==
    { None,
      <<"t", "e", "x", "t", "/", "p", "l", "a", "i", "n">>,
      <<"i", "m", "a", "g", "e", "/", "p", "n", "g">> }

Uploads == [bytes : BytesPool, content_type : ContentTypes]

\* str.startswith
StartsWith(s, prefix) ==
    Len(s) >= Len(prefix) /\ SubSeq(s, 1, Len(prefix)) = prefix

\* not content_type or not content_type.startswith("image/"): None and ""
\* are both false, and both are the empty tuple here
NotAnImageType(content_type) ==
    \/ content_type = None
    \/ ~StartsWith(content_type, tImagePrefix)

\* schemas.ProductClassifier.predict: the coarse label of the picture
PretrainedPredict(image) == _map_label(image.labels)

process_bytes_for_single_product(file_bytes, content_type) ==
    IF NotAnImageType(content_type)
    THEN [raised |-> TRUE, detail |-> "Please upload an image file."]
    ELSE IF ~(file_bytes.opens /\ file_bytes.decodes)
    THEN [raised |-> TRUE, detail |-> "Could not open image"]
    ELSE [raised |-> FALSE, label |-> StubPredict(file_bytes).label,
          confidence |-> StubPredict(file_bytes).confidence]

\* schemas.ProductClassifier.predict: the coarse label and the probability of
\* the top class
classifier_predict(image) ==
    [label |-> PretrainedPredict(image), confidence |-> image.prob]

sCereal == <<"c", "e", "r", "e", "a", "l">>
sMilk == <<"m", "i", "l", "k">>

Min(a, b) == IF a < b THEN a ELSE b

Max(a, b) == IF a > b THEN a ELSE b

\* a loop that keeps every label of the pool
DedupeNone(pool, seen) == pool

\* the loop over labels_pool: the labels not seen before, in order
RECURSIVE Dedupe(_, _)
Dedupe(pool, seen) ==
    IF pool = <<>> THEN <<>>
    ELSE IF Head(pool) \in seen THEN Dedupe(Tail(pool), seen)
    ELSE <<Head(pool)>> \o Dedupe(Tail(pool), seen \cup { Head(pool) })

\* the bounds of random.uniform(0.55, 0.97), in thousandths
ConfLow == 550
ConfHigh == 970

\* random.uniform(a, b): its two extreme outcomes
UniformDraws(a, b) == { a, b }

\* round(x, 2), on thousandths
Round2(x) == ((x + 5) \div 10) * 10

\* conf = round(random.uniform(0.55, 0.97), 2)
ConfidenceDraws == { Round2(u) : u \in UniformDraws(ConfLow, ConfHigh) }

\* the four random.randint draws of one box, over their whole ranges:
\* randint(a, b) raises ValueError when a > b, which is what x2 and y2 meet
\* when x1 or y1 plus the minimal box size passes the picture's edge
BoxDraws(width, height) ==
    { IF \/ x1 + Max(10, (15 * width) \div 100) > width
         \/ y1 + Max(10, (15 * height) \div 100) > height
      THEN "ValueError" ELSE "bbox" :
      x1 \in 0..Max(0, width \div 2), y1 \in 0..Max(0, height \div 2) }

\* fake_multi_detections: the outcomes the random draws allow. A detection
\* is kept as its label and confidence; the coordinates drawn are not kept
fake_multi_detections(image, base_label) ==
    LET unique_labels == Dedupe(<<base_label, sBanana, sApple, sCereal, sMilk>>, {})
        num_detections == Min(3, Len(unique_labels))
        boxes == BoxDraws(image.width, image.height)
    IN  (IF "ValueError" \in boxes
         THEN { [raised |-> TRUE, detections |-> <<>>] }
         ELSE {})
        \cup
        (IF "bbox" \in boxes
         THEN { [raised |-> FALSE,
                 detections |-> [i \in 1..num_detections |->
                                   [label |-> unique_labels[i], confidence |-> conf[i]]]] :
                conf \in [1..num_detections -> ConfidenceDraws] }
         ELSE {})

---------------------------------------------------------------------------
(* api/routes.py *)

NotFoundMessage(label) == [text |-> "No location info found for", label |-> label]

\* a result that reports the section as the aisle
HtmlResultSwapped(label, confidence_value, product_info) ==
    IF product_info = None
    THEN [predicted_label |-> label, confidence |-> confidence_value,
          found_in_database |-> FALSE, message |-> NotFoundMessage(label),
          location |-> None, meta |-> None]
    ELSE [predicted_label |-> label, confidence |-> confidence_value,
          found_in_database |-> TRUE,
          location |-> [aisle |-> product_info.section,
                        section |-> product_info.aisle],
          meta |-> [category |-> product_info.category,
                    price |-> product_info.price,
                    in_stock |-> product_info.in_stock]]

\* predict_html: the result dict
HtmlResult(label, confidence_value, product_info) ==
    IF product_info = None
    THEN [predicted_label |-> label, confidence |-> confidence_value,
          found_in_database |-> FALSE, message |-> NotFoundMessage(label),
          location |-> None, meta |-> None]
    ELSE [predicted_label |-> label, confidence |-> confidence_value,
          found_in_database |-> TRUE,
          location |-> [aisle |-> product_info.aisle,
                        section |-> product_info.section],
          meta |-> [category |-> product_info.category,
                    price |-> product_info.price,
                    in_stock |-> product_info.in_stock]]

\* a result that always claims the product was found
ApiResultAlwaysFound(label, confidence_value, product_info) ==
    IF product_info = None
    THEN [predicted_label |-> label, confidence |-> confidence_value,
          found_in_database |-> TRUE, message |-> NotFoundMessage(label),
          location |-> None, meta |-> None]
    ELSE [predicted_label |-> label, confidence |-> confidence_value,
          found_in_database |-> TRUE,
          location |-> [aisle |-> product_info.aisle,
                        section |-> product_info.section],
          meta |-> [category |-> product_info.category,
                    price |-> product_info.price,
                    in_stock |-> product_info.in_stock]]

\* predict_api: the result dict
ApiResult(label, confidence_value, product_info) ==
    IF product_info = None
    THEN [predicted_label |-> label, confidence |-> confidence_value,
          found_in_database |-> FALSE, message |-> NotFoundMessage(label),
          location |-> None, meta |-> None]
    ELSE [predicted_label |-> label, confidence |-> confidence_value,
          found_in_database |-> TRUE,
          location |-> [aisle |-> product_info.aisle,
                        section |-> product_info.section],
          meta |-> [category |-> product_info.category,
                    price |-> product_info.price,
                    in_stock |-> product_info.in_stock]]

LogLine(result, ts) ==
    [ts |-> ts, label |-> result.predicted_label, conf |-> result.confidence,
     found |-> result.found_in_database, aisle |-> result.location.aisle,
     section |-> result.location.section]

\* the body of the try block: open() fails on a file that cannot be written,
\* and result.get('location', {}) is None when the key holds None, so that
\* .get('aisle') raises before anything is written
LogAttempt(result, lg, writable, ts) ==
    IF ~writable THEN [exc |-> "OSError", log |-> lg]
    ELSE IF result.location = None THEN [exc |-> "AttributeError", log |-> lg]
    ELSE [exc |-> "", log |-> Append(lg, LogLine(result, ts))]

\* _log_request without the except clause
_log_request_unguarded(result, lg, writable, ts) ==
    LET a == LogAttempt(result, lg, writable, ts)
    IN  [raised |-> a.exc # "", log |-> a.log]

\* _log_request: except Exception: pass
_log_request(result, lg, writable, ts) ==
    LET a == LogAttempt(result, lg, writable, ts)
    IN  [raised |-> FALSE, log |-> a.log]

\* one exchange of a prediction endpoint: what was sent, what the handler saw
\* and what it answered
Rejected(file, detail) ==
    [file |-> file, status |-> 400, detail |-> detail, result |-> None,
     table |-> table, writable |-> FALSE, logged |-> FALSE, looked_up |-> FALSE]

Answered(file, result, lg, writable) ==
    [file |-> file, status |-> IF lg.raised THEN 500 ELSE 200, detail |-> "",
     result |-> IF lg.raised THEN None ELSE result,
     table |-> table, writable |-> writable, logged |-> lg.log # log,
     looked_up |-> TRUE]

\* the answer of a handler that keeps no log: an HTTPException (400), an
\* exception nobody catches (500), or a body
Reply(endpoint, file, status, detail, body) ==
    [endpoint |-> endpoint, file |-> file, status |-> status, detail |-> detail,
     body |-> body, logged |-> FALSE, looked_up |-> FALSE]

\* a page served without reading the request
Page(endpoint) ==
    [endpoint |-> endpoint, file |-> None, status |-> 200, detail |-> "",
     body |-> None, logged |-> FALSE, looked_up |-> FALSE]

tNoBananaOrApple ==
    <<"N", "o", " ", "b", "a", "n", "a", "n", "a", " ", "o", "r", " ",
      "a", "p", "p", "l", "e", " ", "d", "e", "t", "e", "c", "t", "e", "d", ".">>

tDetected == <<"D", "e", "t", "e", "c", "t", "e", "d", " ">>

\* a message that names the label whatever it is
BasicMessageAlwaysDetected(label) == tDetected \o label \o <<".">>

\* msg of classify_basic_product
BasicMessage(label) ==
    IF label = sNeither THEN tNoBananaOrApple ELSE tDetected \o label \o <<".">>

\* LocateResponse(detected_product=detected, location=None, message=msg)
LocateResponse(label, confidence) ==
    [detected_product |-> [name |-> label, confidence |-> confidence],
     location |-> None,
     message |-> BasicMessage(label)]

\* the page of POST /detect: the base prediction and one table row per detection
DetectPage(base, detections) ==
    [base_prediction |-> [label |-> base.label, confidence |-> base.confidence],
     detections |-> detections]

\* the JSON of POST /api/detect
DetectJson(base, detections) ==
    [base_prediction |-> [label |-> base.label, confidence |-> base.confidence],
     detections |-> detections]

\* not file.content_type or not file.content_type.startswith("image/"), as
\* the handlers of /detect, /api/detect and /products/basic write it
NotAnImageUpload(content_type) ==
    content_type = None \/ ~StartsWith(content_type, tImagePrefix)

---------------------------------------------------------------------------
(* The state after deployment: no process, a fresh database file *)

Init ==
    /\ mapInput = <<>>
    /\ mapOutput = None
    /\ csv \in CsvFiles
    /\ table = {}
    /\ seedCsv = None
    /\ up = FALSE
    /\ _db_instance = None
    /\ db = None
    /\ constructed = 0
    /\ returned = {}
    /\ calls = 0
    /\ constructions = 0
    /\ staleStart = FALSE
    /\ tableAtStart = {}
    /\ lastLookup = None
    /\ lastList = None
    /\ prevList = None
    /\ log = <<>>
    /\ clock = 0
    /\ completed = <<>>
    /\ lastHtml = None
    /\ lastApi = None
    /\ lastOther = None

\* the server starts: database.py sets _db_instance = None and the import of
\* routes.py runs db = get_db(); an exception there ends the process
Start ==
    /\ ~up
    /\ constructions < MaxConstructions
    /\ LET r == get_db(None, table, csv, 0)
       IN  /\ table' = r.table
           /\ tableAtStart' = r.table
           /\ seedCsv' = IF seedCsv = None /\ r.seeded THEN csv.rows ELSE seedCsv
           /\ staleStart' = (table # {} /\ csv # File(seedCsv))
           /\ up' = ~r.raised
           /\ _db_instance' = r.instance
           /\ db' = r.instance
           /\ constructed' = r.constructed
           /\ returned' = IF r.raised THEN {} ELSE { r.instance }
           /\ calls' = IF r.raised THEN 0 ELSE 1
    /\ constructions' = constructions + 1
    /\ UNCHANGED <<csv, mapVars, queryVars, reqVars, otherVars>>

\* the server process ends; the files stay
Stop ==
    /\ up
    /\ up' = FALSE
    /\ _db_instance' = None
    /\ db' = None
    /\ constructed' = 0
    /\ returned' = {}
    /\ calls' = 0
    /\ UNCHANGED <<csv, table, seedCsv, constructions, staleStart, tableAtStart,
                   mapVars, queryVars, reqVars, otherVars>>

\* somebody rewrites, creates or removes data/products.csv
EditCsv ==
    /\ csv' \in CsvFiles \ { csv }
    /\ UNCHANGED <<table, seedCsv, up, _db_instance, db, constructed, returned,
                   calls, constructions, staleStart, tableAtStart,
                   mapVars, queryVars, reqVars, otherVars>>

\* a further call of get_db() in the running process
GetDbCall ==
    /\ up
    /\ calls < MaxCalls
    /\ LET r == get_db(_db_instance, table, csv, constructed)
       IN  /\ _db_instance' = r.instance
           /\ table' = r.table
           /\ constructed' = r.constructed
           /\ returned' = IF r.raised THEN returned ELSE returned \cup { r.instance }
           /\ constructions' = IF r.built THEN constructions + 1 ELSE constructions
           /\ seedCsv' = IF seedCsv = None /\ r.seeded THEN csv.rows ELSE seedCsv
           /\ staleStart' = IF r.built THEN (table # {} /\ csv # File(seedCsv)) ELSE staleStart
    /\ calls' = calls + 1
    /\ UNCHANGED <<csv, up, db, tableAtStart, mapVars, queryVars, reqVars, otherVars>>

\* queries handed to db.lookup
QueryPool ==
    { sBanana,
      <<" ", "B", "A", "N", "A", "N", "A", " ">>,
      <<"a", "p", "p", "l", "e", " ">>,
      <<"b", "a", "n", " ", "a", "n", "a">>,
      <<"m", "i", "l", "k">> }

LookupCall ==
    /\ up
    /\ \E q \in QueryPool : lastLookup' = [query |-> q, result |-> lookup(table, q)]
    /\ table' = AfterSelect(table)
    /\ UNCHANGED <<lastList, prevList, mapVars, dbRest, reqVars, otherVars>>

\* GET /products: db.all_products()
list_products ==
    /\ up
    /\ clock < MaxRequests
    /\ \E rows \in all_products(table) :
          /\ lastList' = [rows |-> rows]
          /\ prevList' = lastList
    /\ table' = AfterSelect(table)
    /\ clock' = clock + 1
    /\ UNCHANGED <<lastLookup, log, completed, lastHtml, lastApi, mapVars, dbRest,
                   otherVars>>

\* POST /predict
predict_html ==
    /\ up
    /\ clock < MaxRequests
    /\ \E file \in Uploads, writable \in BOOLEAN :
          LET p == process_bytes_for_single_product(file.bytes, file.content_type)
          IN  IF p.raised
              THEN /\ lastHtml' = Rejected(file, p.detail)
                   /\ UNCHANGED <<log, completed, table>>
              ELSE LET product_info == lookup(table, p.label)
                       result == HtmlResult(p.label, p.confidence, product_info)
                       lg == _log_request(result, log, writable, clock)
                   IN  /\ lastHtml' = Answered(file, result, lg, writable)
                       /\ log' = lg.log
                       /\ table' = AfterSelect(table)
                       /\ completed' = IF writable /\ ~lg.raised
                                       THEN Append(completed, clock)
                                       ELSE completed
    /\ clock' = clock + 1
    /\ UNCHANGED <<lastApi, mapVars, dbRest, queryVars, otherVars>>

\* POST /api/predict
predict_api ==
    /\ up
    /\ clock < MaxRequests
    /\ \E file \in Uploads, writable \in BOOLEAN :
          LET p == process_bytes_for_single_product(file.bytes, file.content_type)
          IN  IF p.raised
              THEN /\ lastApi' = Rejected(file, p.detail)
                   /\ UNCHANGED <<log, completed, table>>
              ELSE LET product_info == lookup(table, p.label)
                       result == ApiResult(p.label, p.confidence, product_info)
                       lg == _log_request(result, log, writable, clock)
                   IN  /\ lastApi' = Answered(file, result, lg, writable)
                       /\ log' = lg.log
                       /\ table' = AfterSelect(table)
                       /\ completed' = IF writable /\ ~lg.raised
                                       THEN Append(completed, clock)
                                       ELSE completed
    /\ clock' = clock + 1
    /\ UNCHANGED <<lastHtml, mapVars, dbRest, queryVars, otherVars>>

\* POST /products/basic: Image.open reads the header only, so a picture whose
\* data is cut short passes the try block and fails in classifier.predict
classify_basic_product ==
    /\ up
    /\ clock < MaxRequests
    /\ \E file \in Uploads :
          lastOther' =
             IF NotAnImageUpload(file.content_type)
             THEN Reply("/products/basic", file, 400, "Please upload an image file.", None)
             ELSE IF ~file.bytes.opens
             THEN Reply("/products/basic", file, 400, "Could not read image.", None)
             ELSE IF ~file.bytes.decodes
             THEN Reply("/products/basic", file, 500, "", None)
             ELSE LET p == classifier_predict(file.bytes)
                  IN  Reply("/products/basic", file, 200, "",
                            LocateResponse(p.label, p.confidence))
    /\ clock' = clock + 1
    /\ UNCHANGED <<log, completed, lastHtml, lastApi, mapVars, dbVars, queryVars>>

\* POST /detect
detect_html ==
    /\ up
    /\ clock < MaxRequests
    /\ \E file \in Uploads :
          IF NotAnImageUpload(file.content_type)
          THEN lastOther' = Reply("/detect", file, 400, "Please upload an image file.", None)
          ELSE IF ~(file.bytes.opens /\ file.bytes.decodes)
          THEN lastOther' = Reply("/detect", file, 400, "Could not open image.", None)
          ELSE LET base == classifier_predict(file.bytes)
               IN  \E out \in fake_multi_detections(file.bytes, base.label) :
                      lastOther' =
                         IF out.raised
                         THEN Reply("/detect", file, 500, "", None)
                         ELSE Reply("/detect", file, 200, "",
                                    DetectPage(base, out.detections))
    /\ clock' = clock + 1
    /\ UNCHANGED <<log, completed, lastHtml, lastApi, mapVars, dbVars, queryVars>>

\* POST /api/detect
detect_api ==
    /\ up
    /\ clock < MaxRequests
    /\ \E file \in Uploads :
          IF NotAnImageUpload(file.content_type)
          THEN lastOther' = Reply("/api/detect", file, 400, "Please upload an image file.", None)
          ELSE IF ~(file.bytes.opens /\ file.bytes.decodes)
          THEN lastOther' = Reply("/api/detect", file, 400, "Could not open image.", None)
          ELSE LET base == classifier_predict(file.bytes)
               IN  \E out \in fake_multi_detections(file.bytes, base.label) :
                      lastOther' =
                         IF out.raised
                         THEN Reply("/api/detect", file, 500, "", None)
                         ELSE Reply("/api/detect", file, 200, "",
                                    DetectJson(base, out.detections))
    /\ clock' = clock + 1
    /\ UNCHANGED <<log, completed, lastHtml, lastApi, mapVars, dbVars, queryVars>>

\* GET /
index ==
    /\ up
    /\ clock < MaxRequests
    /\ lastOther' = Page("/")
    /\ clock' = clock + 1
    /\ UNCHANGED <<log, completed, lastHtml, lastApi, mapVars, dbVars, queryVars>>

\* GET /detect
detect_index ==
    /\ up
    /\ clock < MaxRequests
    /\ lastOther' = Page("/detect")
    /\ clock' = clock + 1
    /\ UNCHANGED <<log, completed, lastHtml, lastApi, mapVars, dbVars, queryVars>>

\* the prediction endpoints of a deployed server
Next == Start \/ predict_html \/ predict_api

Spec == Init /\ [][Next]_vars

\* the database file over restarts and edits of the CSV
NextDb == Start \/ Stop \/ EditCsv \/ GetDbCall

SpecDb == Init /\ [][NextDb]_vars

\* the queries of a running server
NextQuery == Start \/ LookupCall \/ list_products

SpecQuery == Init /\ [][NextQuery]_vars

\* the simulated detection
NextDetect == Start \/ detect_html \/ detect_api

SpecDetect == Init /\ [][NextDetect]_vars

\* the classifier-only endpoint
NextBasic == Start \/ classify_basic_product

SpecBasic == Init /\ [][NextBasic]_vars

\* every endpoint of the router
NextAll ==
    \/ Start
    \/ index
    \/ list_products
    \/ predict_html
    \/ predict_api
    \/ detect_index
    \/ detect_html
    \/ detect_api
    \/ classify_basic_product

\* a deployment whose products.csv lists a banana and an apple
InitAll ==
    /\ Init
    /\ csv = File(<<CsvRow(<<" ", "B", "a", "n", "a", "n", "a">>, tFruit, <<"2">>, <<"A">>,
                           <<"1">>, <<" ", "Y", "E", "S">>),
                    CsvRow(<<"A", "p", "p", "l", "e">>, tFruit, <<"2">>, <<"A">>,
                           <<"3">>, <<"1">>)>>)

SpecAll == InitAll /\ [][NextAll]_vars

---------------------------------------------------------------------------
(* _map_label on its own *)

InitMap ==
    /\ mapInput \in LabelLists
    /\ mapOutput = None
    /\ csv = Missing
    /\ table = {}
    /\ seedCsv = None
    /\ up = FALSE
    /\ _db_instance = None
    /\ db = None
    /\ constructed = 0
    /\ returned = {}
    /\ calls = 0
    /\ constructions = 0
    /\ staleStart = FALSE
    /\ tableAtStart = {}
    /\ lastLookup = None
    /\ lastList = None
    /\ prevList = None
    /\ log = <<>>
    /\ clock = 0
    /\ completed = <<>>
    /\ lastHtml = None
    /\ lastApi = None
    /\ lastOther = None

MapLabel ==
    /\ mapOutput = None
    /\ mapOutput' = _map_label(mapInput)
    /\ UNCHANGED <<mapInput, dbVars, queryVars, reqVars, otherVars>>

NextMap == MapLabel

SpecMap == InitMap /\ [][NextMap]_vars

---------------------------------------------------------------------------
(* Properties *)

\* the exchanges of the two prediction endpoints seen so far
Exchanges == { e \in { lastHtml, lastApi } : e # None }

\* the upload passes the content-type test and opens as an image
Accepted(file) ==
    ~NotAnImageType(file.content_type) /\ file.bytes.opens /\ file.bytes.decodes

\* the rows of tbl stored under the normalised form of a label
Hits(tbl, label) == { r \in tbl : r.product_name = Lower(Strip(label)) }

\* C1: every accepted upload of /predict and /api/predict reports the coarse
\* label that the pretrained classifier assigns to the picture.
C1_LabelIsPretrained ==
    \A e \in Exchanges :
        e.status = 200 => e.result.predicted_label = PretrainedPredict(e.file.bytes)

\* some label of the list contains one of the keywords, case-insensitively
HasKeyword(labels, keywords) ==
    \E i \in 1..Len(labels) : \E k \in keywords : Contains(Lower(labels[i]), k)

\* C2: _map_label answers every label list with exactly one of banana, apple,
\* neither: banana if any label contains a banana keyword at whatever rank,
\* otherwise apple if any label contains an apple keyword, otherwise neither.
C2_MapLabel ==
    mapOutput # None =>
        /\ mapOutput \in ProductLabel
        /\ mapOutput = sBanana <=> HasKeyword(mapInput, _banana_keywords)
        /\ mapOutput = sApple <=>
              /\ ~HasKeyword(mapInput, _banana_keywords)
              /\ HasKeyword(mapInput, _apple_keywords)
        /\ mapOutput = sNeither <=>
              /\ ~HasKeyword(mapInput, _banana_keywords)
              /\ ~HasKeyword(mapInput, _apple_keywords)

\* a list whose top label is an apple and whose banana comes later maps to banana
C2_Witness ==
    /\ mapOutput = sBanana
    /\ Len(mapInput) >= 2
    /\ HasKeyword(<<mapInput[1]>>, _apple_keywords)
    /\ ~HasKeyword(<<mapInput[1]>>, _banana_keywords)

\* C3: in every payload of POST /api/predict, found_in_database is true
\* exactly when the table holds a row for the predicted label; then location
\* and meta carry that row's values, and otherwise both are null and a
\* message names the label.
C3_ApiPayload ==
    (lastApi # None /\ lastApi.status = 200) =>
        LET res == lastApi.result
            hits == Hits(lastApi.table, res.predicted_label)
        IN  /\ res.found_in_database <=> hits # {}
            /\ res.found_in_database =>
                  \E r \in hits :
                      /\ res.location = [aisle |-> r.aisle, section |-> r.section]
                      /\ res.meta = [category |-> r.category, price |-> r.price,
                                     in_stock |-> (r.in_stock = 1)]
            /\ ~res.found_in_database =>
                  /\ res.location = None
                  /\ res.meta = None
                  /\ "message" \in DOMAIN res
                  /\ res.message.label = res.predicted_label

\* /api/predict has answered with a product that is in the table
C3_Witness ==
    /\ lastApi # None
    /\ lastApi.status = 200
    /\ lastApi.result.found_in_database
    /\ lastApi.result.location.aisle = <<"1", "0">>

\* C4: for the same upload and the same table, POST /predict and
\* POST /api/predict compute the same result record.
C4_SameResult ==
    (/\ lastHtml # None
     /\ lastApi # None
     /\ lastHtml.file = lastApi.file
     /\ lastHtml.table = lastApi.table) =>
        /\ lastHtml.status = lastApi.status
        /\ lastHtml.result = lastApi.result
        /\ lastHtml.detail = lastApi.detail

\* both endpoints have answered the same accepted upload, the product found
C4_Witness ==
    /\ lastHtml # None
    /\ lastApi # None
    /\ lastHtml.file = lastApi.file
    /\ lastHtml.status = 200
    /\ lastHtml.result.found_in_database

\* C5: every prediction completed while the log file is writable appends
\* exactly one line, found or not, so the log holds one line per such
\* prediction, in request order.
C5_OneLinePerPrediction ==
    [i \in 1..Len(log) |-> log[i].ts] = completed

\* C6: _log_request never raises: an accepted upload is answered with the
\* result record of the lookup whether or not the log line could be written.
C6_LoggingNeverBreaks ==
    \A e \in Exchanges :
        Accepted(e.file) =>
            /\ e.status = 200
            /\ e.result # None
            /\ e.result.found_in_database <=>
                  Hits(e.table, e.result.predicted_label) # {}

\* one answer went out although the log file could not be written, another
\* although the log line could not be formatted
C6_Witness ==
    /\ lastApi # None
    /\ lastApi.status = 200
    /\ ~lastApi.writable
    /\ lastHtml # None
    /\ lastHtml.status = 200
    /\ lastHtml.writable
    /\ ~lastHtml.logged

\* the seeding CSV's rows whose normalised product_name is that of the query
Matching(q) ==
    { i \in 1..Len(seedCsv) :
        Lower(Strip(seedCsv[i].product_name)) = Lower(Strip(q)) }

Last(S) == CHOOSE i \in S : \A j \in S : j <= i

\* C7: once the table is seeded from a CSV, lookup(q) returns the seeded
\* record when q's stripped, lower-cased form is that of a CSV row's
\* product_name (of rows sharing a name the last is the seeded one) and None
\* otherwise; the record's product_name is the normalised name.
C7_LookupAfterSeed ==
    (seedCsv # None /\ lastLookup # None) =>
        LET q == lastLookup.query
            res == lastLookup.result
        IN  IF Matching(q) = {}
            THEN res = None
            ELSE LET row == seedCsv[Last(Matching(q))]
                 IN  /\ res # None
                     /\ res.product_name = Lower(Strip(q))
                     /\ res.product_name = Lower(Strip(row.product_name))
                     /\ res.category = row.category
                     /\ res.aisle = row.aisle
                     /\ res.section = row.section
                     /\ res.price = ToNumber(row.price)
                     /\ res.in_stock <=> Lower(Strip(row.stock)) \in TrueWords

\* a query that differs from the stored name in case and padding found its row
C7_Witness ==
    /\ seedCsv # None
    /\ lastLookup # None
    /\ lastLookup.result # None
    /\ lastLookup.query # lastLookup.result.product_name
    /\ Cardinality(Matching(lastLookup.query)) = 2

\* C8: a construction over a table that has a row changes no row, even if
\* the CSV has changed: after any sequence of constructions the table is
\* empty or holds exactly what the first seed wrote.
C8_SeedOnlyWhenEmpty ==
    IF seedCsv = None THEN table = {} ELSE table = ExecuteMany({}, seedCsv)

\* a second construction has met a seeded table and a CSV changed since
C8_Witness ==
    /\ up
    /\ staleStart
    /\ constructions >= 2
    /\ table # {}
    /\ csv.rows # <<>>

\* the listing holds every row of the table exactly once
ListsTable(rows, tbl) ==
    /\ Len(rows) = Cardinality(tbl)
    /\ \A r \in tbl : \E i \in 1..Len(rows) : rows[i] = ProductLocation(r)

\* C9 as stated: all_products returns every row once, ordered by aisle and
\* then by name, the same on every call, and a lower-numbered aisle comes
\* before a higher-numbered one.
C9_NumericAisleOrder ==
    lastList # None =>
        /\ ListsTable(lastList.rows, table)
        /\ prevList # None => prevList = lastList
        /\ \A i, j \in 1..Len(lastList.rows) :
              i < j => ToNumber(lastList.rows[i].aisle) <= ToNumber(lastList.rows[j].aisle)

\* C9: all_products returns every row once, ordered by aisle compared as
\* text and then by product name, the same on every call; a lower-numbered
\* aisle comes first when both aisle numbers have the same number of digits.
C9_TextAisleOrder ==
    lastList # None =>
        /\ ListsTable(lastList.rows, table)
        /\ prevList # None => prevList = lastList
        /\ \A i, j \in 1..Len(lastList.rows) :
              i < j =>
                 LET a == lastList.rows[i]
                     b == lastList.rows[j]
                 IN  /\ \/ TextLess(a.aisle, b.aisle)
                        \/ a.aisle = b.aisle /\ TextLess(a.product_name, b.product_name)
                     /\ Len(a.aisle) = Len(b.aisle) =>
                           ToNumber(a.aisle) <= ToNumber(b.aisle)

\* two listings of a table whose aisle 10 row comes before its aisle 2 row
C9_Witness ==
    /\ lastList # None
    /\ prevList # None
    /\ Len(lastList.rows) = 2
    /\ lastList.rows[1].aisle = <<"1", "0">>
    /\ lastList.rows[2].aisle = <<"2">>

\* C10: in a process at most one ProductDatabase is constructed and every
\* get_db call returns that instance.
C10_SharedInstance ==
    /\ constructed <= 1
    /\ Cardinality(returned) <= 1
    /\ up => (returned = { _db_instance } /\ db = _db_instance)

\* get_db has been called again after the import of routes.py
C10_Witness ==
    /\ up
    /\ calls >= 2
    /\ constructed = 1

---------------------------------------------------------------------------
(* The simulated detection and the classifier-only endpoint *)

\* the answers of POST /detect and POST /api/detect seen last
DetectReplies ==
    IF lastOther # None /\ lastOther.endpoint \in { "/detect", "/api/detect" }
       /\ lastOther.file # None
    THEN { lastOther } ELSE {}

\* the upload is a picture that every handler can open and decode
GoodUpload(file) ==
    /\ file.content_type # None
    /\ StartsWith(file.content_type, tImagePrefix)
    /\ file.bytes.opens
    /\ file.bytes.decodes

\* C11 as stated: every detection returned by POST /detect and POST
\* /api/detect carries the label of the base prediction.
C11_AllCarryBaseLabel ==
    \A e \in DetectReplies :
       e.status = 200 =>
          \A i \in 1..Len(e.body.detections) :
             e.body.detections[i].label = e.body.base_prediction.label

\* C11: of the detections returned by POST /detect and POST /api/detect the
\* first carries the label of the base prediction, which is the classifier's
\* coarse label of the picture; every further detection carries another
\* label, one of banana, apple, cereal and milk.
C11_FirstCarriesBaseLabel ==
    \A e \in DetectReplies :
       e.status = 200 =>
          LET d == e.body.detections
              base == e.body.base_prediction.label
          IN  /\ base = PretrainedPredict(e.file.bytes)
              /\ Len(d) >= 1
              /\ d[1].label = base
              /\ \A i \in 2..Len(d) :
                    /\ d[i].label # base
                    /\ d[i].label \in { sBanana, sApple, sCereal, sMilk }

\* POST /api/detect answered a banana picture with three detections, the
\* second of them an apple
C11_Witness ==
    /\ lastOther # None
    /\ lastOther.endpoint = "/api/detect"
    /\ lastOther.status = 200
    /\ lastOther.body.base_prediction.label = sBanana
    /\ Len(lastOther.body.detections) = 3
    /\ lastOther.body.detections[2].label = sApple

\* the content type is missing or is not an image type, or no picture can be
\* got out of the bytes
BadUpload(file) ==
    \/ file.content_type = None
    \/ ~StartsWith(file.content_type, tImagePrefix)
    \/ ~(file.bytes.opens /\ file.bytes.decodes)

\* C12: each of /predict, /api/predict, /detect, /api/detect and
\* /products/basic answers 400 to an upload whose content type is missing or
\* not an image type or whose bytes cannot be opened as an image, and a
\* request that /predict or /api/predict rejects this way looks nothing up
\* and appends no log line.
C12_BadUploadsGet400 ==
    /\ \A e \in Exchanges :
          /\ BadUpload(e.file) => e.status = 400
          /\ e.status = 400 => ~e.looked_up /\ ~e.logged
    /\ (lastOther # None /\ lastOther.file # None /\ BadUpload(lastOther.file))
          => lastOther.status = 400

\* the successful answers of POST /products/basic seen last
BasicReplies ==
    IF lastOther # None /\ lastOther.endpoint = "/products/basic"
       /\ lastOther.status = 200
    THEN { lastOther } ELSE {}

\* C13: POST /products/basic leaves the database alone, and each of its
\* successful responses has location null, detected_product.name equal to the
\* classifier's coarse label of the picture, and the message "No banana or
\* apple detected." exactly when that label is neither, "Detected <label>."
\* otherwise.
C13_BasicResponse ==
    /\ table = tableAtStart
    /\ lastLookup = None
    /\ \A e \in BasicReplies :
          LET label == _map_label(e.file.bytes.labels)
          IN  /\ ~e.looked_up
              /\ e.body.location = None
              /\ e.body.detected_product.name = label
              /\ (e.body.message = tNoBananaOrApple) <=> (label = sNeither)
              /\ label # sNeither
                    => e.body.message = tDetected \o label \o <<".">>

\* the second request of a server with products in its table was answered by
\* POST /products/basic for a picture of a lemon, which is neither
C13_Witness ==
    /\ table # {}
    /\ \E e \in BasicReplies :
          /\ e.body.detected_product.name = sNeither
          /\ e.body.message = tNoBananaOrApple
    /\ clock = 2

\* the labels fake_multi_detections is to give for a base label: the base
\* label, then the first two of banana, apple, cereal and milk that differ
\* from it
ExpectedLabels(base) ==
    LET rest == SelectSeq(<<sBanana, sApple, sCereal, sMilk>>, LAMBDA l : l # base)
    IN  <<base, rest[1], rest[2]>>

\* C14: for a picture that opens, fake_multi_detections returns exactly three
\* detections whatever the base label; their labels are pairwise distinct,
\* the first is the base label and the others are taken in order from banana,
\* apple, cereal and milk; each confidence lies between 0.55 and 0.97.
C14_ThreeDetections ==
    \A e \in DetectReplies :
       GoodUpload(e.file) =>
          /\ e.status = 200
          /\ LET d == e.body.detections
                 base == e.body.base_prediction.label
             IN  /\ Len(d) = 3
                 /\ \A i, j \in 1..Len(d) : i # j => d[i].label # d[j].label
                 /\ [i \in 1..Len(d) |-> d[i].label] = ExpectedLabels(base)
                 /\ \A i \in 1..Len(d) :
                       d[i].confidence >= 550 /\ d[i].confidence <= 970

---------------------------------------------------------------------------
(* The products table under requests *)

\* C15: once the ProductDatabase has been constructed, no sequence of
\* requests to /, /products, /predict, /api/predict, /detect, /api/detect and
\* /products/basic, accepted or rejected, changes the products table.
C15_TableUnchanged ==
    constructions > 0 => table = tableAtStart

\* a server with products in its table has listed them and has answered a
\* prediction after looking its label up
C15_Witness ==
    /\ up
    /\ table # {}
    /\ lastList # None
    /\ \E e \in Exchanges : e.status = 200 /\ e.looked_up
====
